---- MODULE Spec2Model ----
(***************************************************************************)
(* A model of the CRM GraphQL service: the Customer, Product and Order     *)
(* tables (crm/models.py), the four mutations and the list queries         *)
(* (crm/schema.py) and the filter sets (crm/filters.py).                   *)
(*                                                                         *)
(* Requests run in request slots.  A mutation is cut into steps at the     *)
(* points where it talks to the database, so that the steps of concurrent  *)
(* requests interleave the way the statements of concurrent requests do.   *)
(* The database is the committed tables plus, for a request inside         *)
(* transaction.atomic(), the rows it has inserted and not yet committed    *)
(* (READ COMMITTED: nobody else sees them, the unique index does).         *)
(*                                                                         *)
(* Text (names, emails, phones, GraphQL IDs) is a sequence of one-         *)
(* character strings.  An optional value is a sequence of length <= 1:     *)
(* None is <<>> and Some(x) is <<x>>.  Prices are in cents.                *)
(***************************************************************************)
EXTENDS Integers, Sequences, FiniteSets, TLC

VARIABLES customers, products, orders, cseq, pseq, oseq, req

vars == <<customers, products, orders, cseq, pseq, oseq, req>>

(***************************************************************************)
(* Bounds of the model.                                                    *)
(***************************************************************************)
NumSlots == 2
MaxRows == 3
MaxProducts == 2
MaxSeq == 4
MaxIds == 2
MaxOrders == 2
MaxStored == 2

Slots == 1..NumSlots

(***************************************************************************)
(* Text and optional values.                                               *)
(***************************************************************************)
None == <<>>
Some(x) == <<x>>
IsNone(o) == o = <<>>

\* Python's `x or ""` for an optional string.
OrEmpty(o) == IF IsNone(o) THEN <<>> ELSE o[1]

\* Python's `x or None` for an optional string: "" becomes None.
OrNone(o) == IF IsNone(o) \/ o[1] = <<>> THEN None ELSE o

Digits == {"0", "1", "2", "3", "4", "5", "6", "7", "8", "9"}

AllDigits(s, lo, hi) == \A i \in lo..hi : s[i] \in Digits

(***************************************************************************)
(* PHONE_RE = ^(\+\d{7,15}|\d{3}-\d{3}-\d{4})$ and _valid_phone.           *)
(* re.match anchors at the start; "$" matches at the end of the string and *)
(* also just before a newline that ends the string.                        *)
(***************************************************************************)
PhonePlusForm(s) ==
    /\ Len(s) >= 8
    /\ Len(s) <= 16
    /\ s[1] = "+"
    /\ AllDigits(s, 2, Len(s))

PhoneDashForm(s) ==
    /\ Len(s) = 12
    /\ AllDigits(s, 1, 3)
    /\ s[4] = "-"
    /\ AllDigits(s, 5, 7)
    /\ s[8] = "-"
    /\ AllDigits(s, 9, 12)

PhoneBody(s) == PhonePlusForm(s) \/ PhoneDashForm(s)

PHONE_RE(s) ==
    \/ PhoneBody(s)
    \/ /\ Len(s) >= 1
       /\ s[Len(s)] = "\n"
       /\ PhoneBody(SubSeq(s, 1, Len(s) - 1))

valid_phone(phone) == IF phone = <<>> THEN TRUE ELSE PHONE_RE(phone)

(***************************************************************************)
(* Rows.                                                                   *)
(***************************************************************************)
\* timezone.now(): a logical clock that advances with every insert.
Now == cseq + pseq + oseq + 1

Customer(id, name, email, phone) ==
    [id |-> id, name |-> name, email |-> email, phone |-> phone, created_at |-> Now]

Product(id, name, price, stock) ==
    [id |-> id, name |-> name, price |-> price, stock |-> stock]

\* products is the set of the ids of the associated Products.
Order(id, customer, prods, total_amount, order_date) ==
    [id |-> id, customer |-> customer, products |-> prods,
     total_amount |-> total_amount, order_date |-> order_date]

RowsWithId(rows, id) == {i \in 1..Len(rows) : rows[i].id = id}

RowById(rows, id) == rows[CHOOSE i \in RowsWithId(rows, id) : TRUE]

(***************************************************************************)
(* GraphQL IDs arrive as text.  A primary-key lookup converts the text     *)
(* with int(): digits (leading zeros allowed) give the number, anything    *)
(* else raises ValueError.  str() writes a number without leading zeros.   *)
(***************************************************************************)
DigitValue ==
    ("0" :> 0) @@ ("1" :> 1) @@ ("2" :> 2) @@ ("3" :> 3) @@ ("4" :> 4) @@
    ("5" :> 5) @@ ("6" :> 6) @@ ("7" :> 7) @@ ("8" :> 8) @@ ("9" :> 9)

DigitChar == <<"0", "1", "2", "3", "4", "5", "6", "7", "8", "9">>

IsInt(s) == Len(s) >= 1 /\ AllDigits(s, 1, Len(s))

RECURSIVE to_python(_)
to_python(s) ==
    IF Len(s) = 0 THEN 0
    ELSE 10 * to_python(SubSeq(s, 1, Len(s) - 1)) + DigitValue[s[Len(s)]]

RECURSIVE str(_)
str(n) ==
    IF n < 10 THEN <<DigitChar[n + 1]>>
    ELSE str(n \div 10) \o <<DigitChar[(n % 10) + 1]>>

EmailExists(rows, email) == \E i \in 1..Len(rows) : rows[i].email = email

Emails(rows) == {rows[i].email : i \in 1..Len(rows)}

(***************************************************************************)
(* Request slots.  pc says where the request stands; resp is what the      *)
(* client got: a payload (the mutation's return value) or, when an         *)
(* exception left mutate(), "raised".                                      *)
(***************************************************************************)
NoResp ==
    [status |-> "none", entity |-> None, customers |-> <<>>, errors |-> <<>>,
     items |-> <<>>, exc |-> ""]

Payload(entity, errors) ==
    [status |-> "payload", entity |-> entity, customers |-> <<>>, errors |-> errors,
     items |-> <<>>, exc |-> ""]

BulkPayload(created, errors) ==
    [status |-> "payload", entity |-> None, customers |-> created, errors |-> errors,
     items |-> <<>>, exc |-> ""]

Raised(exc) ==
    [status |-> "raised", entity |-> None, customers |-> <<>>, errors |-> <<>>,
     items |-> <<>>, exc |-> exc]

Idle ==
    [pc |-> "idle", op |-> "none", input |-> <<>>, idx |-> 0, created |-> <<>>,
     errors |-> <<>>, pending |-> <<>>, customer |-> None,
     resp |-> NoResp]

Started(op, input, pc) == [Idle EXCEPT !.pc = pc, !.op = op, !.input = input]

Finished(op, input, resp) ==
    [Idle EXCEPT !.pc = "done", !.op = op, !.input = input, !.resp = resp]

Free(r) == req[r].pc = "idle"

\* The response has gone out; the slot takes the next request.
Return(r) ==
    /\ req[r].pc = "done"
    /\ req' = [req EXCEPT ![r] = Idle]
    /\ UNCHANGED <<customers, products, orders, cseq, pseq, oseq>>

(***************************************************************************)
(* The unique index on Customer.email (email = EmailField(unique=True)).   *)
(* An INSERT whose email is in a committed row, or in a row of the         *)
(* inserting transaction itself, fails with IntegrityError.  One whose     *)
(* email is in an uncommitted row of another open transaction waits for    *)
(* that transaction to end; when the waiting closes a cycle the database   *)
(* aborts the statement (deadlock detected, an OperationalError).          *)
(* cseq is the table's id sequence: a rolled-back INSERT keeps its id, so  *)
(* the model stops inserting once MaxSeq ids are used.                     *)
(***************************************************************************)
Inserting(a) == req[a].pc \in {"cc_insert", "bulk_insert"}

InsertEmail(a) ==
    IF req[a].pc = "bulk_insert" THEN req[a].input[req[a].idx + 1].email
    ELSE req[a].input.email

WaitsFor(a, b) ==
    /\ a # b
    /\ Inserting(a)
    /\ ~EmailExists(customers \o req[a].pending, InsertEmail(a))
    /\ EmailExists(req[b].pending, InsertEmail(a))

Blockers(a) == {b \in Slots : WaitsFor(a, b)}

RECURSIVE WaitClosure(_, _)
WaitClosure(S, n) ==
    IF n = 0 THEN S
    ELSE WaitClosure(S \cup UNION {Blockers(b) : b \in S}, n - 1)

Deadlocked(a) == a \in WaitClosure(Blockers(a), NumSlots)

\* The INSERT into a table without the unique index: it always succeeds.
NoUniqueIndex(r, email) == "ok"

InsertOutcome(r, email) ==
    IF EmailExists(customers \o req[r].pending, email) THEN "IntegrityError"
    ELSE IF \E q \in Slots \ {r} : EmailExists(req[q].pending, email)
         THEN (IF Deadlocked(r) THEN "OperationalError" ELSE "wait")
         ELSE "ok"

(***************************************************************************)
(* CreateCustomer.mutate.                                                  *)
(***************************************************************************)
MsgEmailExists == "Email already exists."
MsgPhone == "Invalid phone format. Use +1234567890 or 123-456-7890."

\* The checks failing fast: the phone is looked at only for a new email.
CreateCustomerErrorsFailFast(input) ==
    IF EmailExists(customers, input.email) THEN <<MsgEmailExists>>
    ELSE IF ~valid_phone(OrEmpty(input.phone)) THEN <<MsgPhone>>
    ELSE <<>>

CreateCustomerErrors(input) ==
    (IF EmailExists(customers, input.email) THEN <<MsgEmailExists>> ELSE <<>>)
    \o (IF ~valid_phone(OrEmpty(input.phone)) THEN <<MsgPhone>> ELSE <<>>)

\* Lines 91-102: both checks, then the early return when either failed.
CreateCustomer_Validate(r, input) ==
    /\ Free(r)
    /\ LET errors == CreateCustomerErrors(input) IN
       req' = [req EXCEPT ![r] =
                 IF errors # <<>>
                 THEN Finished("CreateCustomer", input, Payload(None, errors))
                 ELSE Started("CreateCustomer", input, "cc_insert")]
    /\ UNCHANGED <<customers, products, orders, cseq, pseq, oseq>>

\* Lines 104-109: the INSERT (autocommit) and the success payload.  An
\* IntegrityError is not caught: it leaves mutate().
CreateCustomer_Insert(r) ==
    /\ req[r].pc = "cc_insert"
    /\ LET input == req[r].input
           out == InsertOutcome(r, input.email)
           row == Customer(cseq + 1, input.name, input.email, OrNone(input.phone))
       IN
       /\ out # "wait"
       /\ cseq < MaxSeq
       /\ IF out = "ok"
          THEN /\ customers' = Append(customers, row)
               /\ cseq' = cseq + 1
               /\ req' = [req EXCEPT ![r] =
                            Finished("CreateCustomer", input, Payload(Some(row), <<>>))]
          ELSE /\ UNCHANGED <<customers, cseq>>
               /\ req' = [req EXCEPT ![r] =
                            Finished("CreateCustomer", input, Raised(out))]
    /\ UNCHANGED <<products, orders, pseq, oseq>>

(***************************************************************************)
(* BulkCreateCustomers.mutate: one transaction.atomic() around the loop,   *)
(* a savepoint per row.                                                    *)
(***************************************************************************)
RowError(idx, text, arg) == [row |-> idx, text |-> text, arg |-> arg]

\* RowErrs with an exists() that misses the rows this batch has inserted.
RowErrsCommittedOnly(r, idx, data) ==
    (IF data.name = <<>> THEN <<RowError(idx, "Name is required.", <<>>)>> ELSE <<>>)
    \o (IF data.email = <<>>
        THEN <<RowError(idx, "Email is required.", <<>>)>>
        ELSE IF EmailExists(customers, data.email)
             THEN <<RowError(idx, "Email already exists", data.email)>>
             ELSE <<>>)
    \o (IF ~valid_phone(OrEmpty(data.phone))
        THEN <<RowError(idx, "Invalid phone format", OrEmpty(data.phone))>>
        ELSE <<>>)

\* Lines 129-137.  The exists() query runs inside the transaction: it sees
\* the committed rows and the rows this batch has inserted.
RowErrs(r, idx, data) ==
    (IF data.name = <<>> THEN <<RowError(idx, "Name is required.", <<>>)>> ELSE <<>>)
    \o (IF data.email = <<>>
        THEN <<RowError(idx, "Email is required.", <<>>)>>
        ELSE IF EmailExists(customers \o req[r].pending, data.email)
             THEN <<RowError(idx, "Email already exists", data.email)>>
             ELSE <<>>)
    \o (IF ~valid_phone(OrEmpty(data.phone))
        THEN <<RowError(idx, "Invalid phone format", OrEmpty(data.phone))>>
        ELSE <<>>)

(***************************************************************************)
(* transaction.savepoint_rollback(sp) executes ROLLBACK TO SAVEPOINT on    *)
(* the connection.  When a query has failed inside the atomic block,       *)
(* Model.save() has marked the connection as needing rollback, and the     *)
(* connection refuses every further statement of the block, this one       *)
(* included, with TransactionManagementError.                              *)
(***************************************************************************)
savepoint_rollback(needs_rollback) ==
    IF needs_rollback THEN "TransactionManagementError" ELSE "ok"

\* The state of slot r after row idx is done: the next row, or, after the
\* last one, the end of the atomic block (COMMIT) and the return of line 155.
AfterRow(r, created, errors, pending) ==
    IF req[r].idx + 1 < Len(req[r].input)
    THEN [req[r] EXCEPT !.pc = "bulk_check", !.idx = @ + 1, !.created = created,
                        !.errors = errors, !.pending = pending]
    ELSE [req[r] EXCEPT !.pc = "done", !.idx = @ + 1, !.created = created,
                        !.errors = errors, !.pending = <<>>,
                        !.resp = BulkPayload(created, errors)]

Committed(r, pending) ==
    IF req[r].idx + 1 < Len(req[r].input) THEN customers ELSE customers \o pending

\* Lines 121-126: entering the atomic block.  An empty batch returns at once.
BulkCreateCustomers_Begin(r, batch) ==
    /\ Free(r)
    /\ req' = [req EXCEPT ![r] =
                 IF batch = <<>>
                 THEN Finished("BulkCreateCustomers", batch, BulkPayload(<<>>, <<>>))
                 ELSE Started("BulkCreateCustomers", batch, "bulk_check")]
    /\ UNCHANGED <<customers, products, orders, cseq, pseq, oseq>>

\* Lines 127-142: the savepoint, the row's validation and, when it fails,
\* the rollback of the savepoint and `continue`.
BulkCreateCustomers_RowCheck(r) ==
    /\ req[r].pc = "bulk_check"
    /\ LET idx == req[r].idx
           data == req[r].input[idx + 1]
           row_errs == RowErrs(r, idx, data)
       IN
       IF row_errs # <<>>
       THEN /\ savepoint_rollback(FALSE) = "ok"
            /\ req' = [req EXCEPT ![r] =
                         AfterRow(r, req[r].created, req[r].errors \o row_errs,
                                  req[r].pending)]
            /\ customers' = Committed(r, req[r].pending)
       ELSE /\ req' = [req EXCEPT ![r].pc = "bulk_insert"]
            /\ UNCHANGED customers
    /\ UNCHANGED <<products, orders, cseq, pseq, oseq>>

\* Lines 144-153: the INSERT, and either the savepoint's release or the
\* except branch.  In the except branch the failed INSERT has marked the
\* connection, so savepoint_rollback raises out of the handler, out of the
\* loop and out of the atomic block, which rolls the whole batch back.
BulkCreateCustomers_RowInsert(r) ==
    /\ req[r].pc = "bulk_insert"
    /\ LET idx == req[r].idx
           data == req[r].input[idx + 1]
           out == InsertOutcome(r, data.email)
           row == Customer(cseq + 1, data.name, data.email, OrNone(data.phone))
           errors == Append(req[r].errors, RowError(idx, out, <<>>))
           rb == savepoint_rollback(TRUE)
       IN
       /\ out # "wait"
       /\ cseq < MaxSeq
       /\ IF out = "ok"
          THEN /\ req' = [req EXCEPT ![r] =
                            AfterRow(r, Append(req[r].created, row), req[r].errors,
                                     Append(req[r].pending, row))]
               /\ customers' = Committed(r, Append(req[r].pending, row))
               /\ cseq' = cseq + 1
          ELSE IF rb = "ok"
          THEN /\ req' = [req EXCEPT ![r] =
                            AfterRow(r, req[r].created, errors, req[r].pending)]
               /\ customers' = Committed(r, req[r].pending)
               /\ UNCHANGED cseq
          ELSE /\ req' = [req EXCEPT ![r] =
                            [@ EXCEPT !.pc = "done", !.errors = errors,
                                      !.pending = <<>>, !.resp = Raised(rb)]]
               /\ UNCHANGED <<customers, cseq>>
    /\ UNCHANGED <<products, orders, pseq, oseq>>

(***************************************************************************)
(* Inputs.                                                                 *)
(***************************************************************************)
BoundedSeq(S, n) == UNION {[1..k -> S] : k \in 0..n}

CustomerInput(name, email, phone) == [name |-> name, email |-> email, phone |-> phone]

NameA == <<"A">>
EmailA == <<"a", "@", "x">>
EmailB == <<"b", "@", "x">>
PhonePlus == <<"+", "1", "2", "3", "4", "5", "6", "7">>
PhoneShort == <<"+", "1", "2", "3", "4", "5", "6">>

\* Two valid customers: the inputs of the concurrent runs.
InA == CustomerInput(NameA, EmailA, None)
InB == CustomerInput(NameA, EmailB, None)

RaceInputs == {InA, InB}

RaceBatches == {<<InA>>, <<InA, InB>>, <<InB, InA>>}

(***************************************************************************)
(* Spec: CreateCustomer and BulkCreateCustomers requests, interleaved.     *)
(***************************************************************************)
Init ==
    /\ customers = <<>>
    /\ products = <<>>
    /\ orders = <<>>
    /\ cseq = 0
    /\ pseq = 0
    /\ oseq = 0
    /\ req = [r \in Slots |-> Idle]

CustomerStep(r, inputs, batches) ==
    \/ \E input \in inputs : CreateCustomer_Validate(r, input)
    \/ CreateCustomer_Insert(r)
    \/ \E batch \in batches : BulkCreateCustomers_Begin(r, batch)
    \/ BulkCreateCustomers_RowCheck(r)
    \/ BulkCreateCustomers_RowInsert(r)
    \/ Return(r)

Next == \E r \in Slots : CustomerStep(r, RaceInputs, RaceBatches)

Spec == Init /\ [][Next]_vars

(***************************************************************************)
(* SpecBulk: one client, one request at a time, over customers with empty  *)
(* and duplicate fields and malformed phones.                              *)
(***************************************************************************)
RowNoName == CustomerInput(<<>>, EmailA, None)
RowNoEmail == CustomerInput(NameA, <<>>, None)
RowPhoneB == CustomerInput(NameA, EmailB, Some(PhonePlus))
RowBadPhoneB == CustomerInput(NameA, EmailB, Some(PhoneShort))
RowAllBad == CustomerInput(<<>>, <<>>, Some(PhoneShort))

SeqRows == {InA, RowPhoneB, RowNoName, RowNoEmail, RowBadPhoneB, RowAllBad}

NextBulk == CustomerStep(1, SeqRows, BoundedSeq(SeqRows, MaxRows))

SpecBulk == Init /\ [][NextBulk]_vars

(***************************************************************************)
(* CreateProduct.mutate.  The price is taken in cents.                     *)
(***************************************************************************)
CreateProductErrs(input) ==
    (IF input.name = <<>> THEN <<"Name is required.">> ELSE <<>>)
    \o (IF input.price <= 0 THEN <<"Price must be positive.">> ELSE <<>>)
    \o (IF (IF IsNone(input.stock) THEN 0 ELSE input.stock[1]) < 0
        THEN <<"Stock cannot be negative.">> ELSE <<>>)

\* Lines 166-191: the three checks, then the INSERT.
CreateProduct_Mutate(r, input) ==
    /\ Free(r)
    /\ LET errs == CreateProductErrs(input)
           stock == IF IsNone(input.stock) THEN 0 ELSE input.stock[1]
           row == Product(pseq + 1, input.name, input.price, stock)
       IN
       IF errs # <<>>
       THEN /\ req' = [req EXCEPT ![r] =
                         Finished("CreateProduct", input, Payload(None, errs))]
            /\ UNCHANGED <<products, pseq>>
       ELSE /\ pseq < MaxProducts
            /\ products' = Append(products, row)
            /\ pseq' = pseq + 1
            /\ req' = [req EXCEPT ![r] =
                         Finished("CreateProduct", input, Payload(Some(row), <<>>))]
    /\ UNCHANGED <<customers, orders, cseq, oseq>>

(***************************************************************************)
(* Order.save and CreateOrder.mutate.                                      *)
(***************************************************************************)
RECURSIVE SumPrices(_)
SumPrices(ids) ==
    IF ids = {} THEN 0
    ELSE LET id == CHOOSE x \in ids : TRUE IN
         RowById(products, id).price + SumPrices(ids \ {id})

(***************************************************************************)
(* Order.save (models.py): when total_amount is falsy (0 is) the total is  *)
(* recomputed from self.products.all().  The products relation of an       *)
(* instance that has no primary key yet raises ValueError.                 *)
(* The result is the exception raised ("" for none) and the order as it    *)
(* is written by super().save().                                           *)
(***************************************************************************)
Order_save(order) ==
    IF order.total_amount = 0
    THEN IF IsNone(order.id)
         THEN [exc |-> "ValueError", order |-> order]
         ELSE [exc |-> "", order |-> [order EXCEPT !.total_amount = SumPrices(order.products)]]
    ELSE [exc |-> "", order |-> order]

\* Product.objects.filter(id__in=product_ids): the ids of the rows found.
ProductsFound(product_ids) ==
    {products[i].id : i \in {j \in 1..Len(products) :
        \E k \in 1..Len(product_ids) : products[j].id = to_python(product_ids[k])}}

\* Line 214-215: found_ids as text, and the supplied ids not among them.
Missing(product_ids) ==
    LET found_ids == {str(id) : id \in ProductsFound(product_ids)} IN
    SelectSeq(product_ids, LAMBDA pid : pid \notin found_ids)

\* The block of lines 221-226 with the row inserted outside any transaction:
\* the INSERT stays when a later statement fails.
create_order_no_atomic(customer, found, odt) ==
    [exc |-> "ValueError",
     order |-> None,
     orders |-> Append(orders, Order(Some(oseq + 1), customer.id, {}, 0, odt))]

(***************************************************************************)
(* Lines 221-226 inside transaction.atomic(): Order.objects.create (which  *)
(* calls save on the new instance), products.set, the Sum aggregate and    *)
(* save(update_fields).  An exception rolls the block back: the committed  *)
(* orders are then the ones before the block.                              *)
(***************************************************************************)
create_order_atomic(customer, found, odt) ==
    LET new == Order(None, customer.id, {}, 0, odt)
        s1 == Order_save(new)
        inserted == [s1.order EXCEPT !.id = Some(oseq + 1)]
        withset == [inserted EXCEPT !.products = found]
        total == SumPrices(found)
        s2 == Order_save([withset EXCEPT !.total_amount = total])
    IN
    IF s1.exc # "" THEN [exc |-> s1.exc, order |-> None, orders |-> orders]
    ELSE IF s2.exc # "" THEN [exc |-> s2.exc, order |-> None, orders |-> orders]
    ELSE [exc |-> "", order |-> Some(s2.order), orders |-> Append(orders, s2.order)]

OrderError(text, arg) == [text |-> text, arg |-> arg]

\* Lines 203-211: the customer lookup and the empty-list check.
CreateOrder_Customer(r, input) ==
    /\ Free(r)
    /\ req' = [req EXCEPT ![r] =
         IF ~IsInt(input.customer_id)
         THEN Finished("CreateOrder", input, Raised("ValueError"))
         ELSE IF RowsWithId(customers, to_python(input.customer_id)) = {}
         THEN Finished("CreateOrder", input,
                Payload(None, <<OrderError("Invalid customer ID", <<input.customer_id>>)>>))
         ELSE IF input.product_ids = <<>>
         THEN Finished("CreateOrder", input,
                Payload(None, <<OrderError("At least one product must be selected.", <<>>)>>))
         ELSE [Started("CreateOrder", input, "co_products") EXCEPT
                 !.customer = Some(RowById(customers, to_python(input.customer_id)))]]
    /\ UNCHANGED <<customers, products, orders, cseq, pseq, oseq>>

\* Lines 213-217: the products query and the missing ids.
CreateOrder_Products(r) ==
    /\ req[r].pc = "co_products"
    /\ LET input == req[r].input
           missing == Missing(input.product_ids)
       IN
       req' = [req EXCEPT ![r] =
         IF \E k \in 1..Len(input.product_ids) : ~IsInt(input.product_ids[k])
         THEN Finished("CreateOrder", input, Raised("ValueError"))
         ELSE IF missing # <<>>
         THEN Finished("CreateOrder", input,
                Payload(None, <<OrderError("Invalid product ID(s)", missing)>>))
         ELSE [@ EXCEPT !.pc = "co_atomic"]]
    /\ UNCHANGED <<customers, products, orders, cseq, pseq, oseq>>

\* Lines 219-228: the atomic block and the success payload.
CreateOrder_Atomic(r) ==
    /\ req[r].pc = "co_atomic"
    /\ oseq < MaxOrders
    /\ LET input == req[r].input
           odt == IF IsNone(input.order_date) THEN Now ELSE input.order_date[1]
           done == create_order_atomic(req[r].customer[1],
                                       ProductsFound(input.product_ids), odt)
       IN
       /\ orders' = done.orders
       /\ oseq' = IF Len(done.orders) > Len(orders) THEN oseq + 1 ELSE oseq
       /\ req' = [req EXCEPT ![r] =
            IF done.exc # ""
            THEN Finished("CreateOrder", input, Raised(done.exc))
            ELSE Finished("CreateOrder", input, Payload(done.order, <<>>))]
    /\ UNCHANGED <<customers, products, cseq, pseq>>

(***************************************************************************)
(* The read path: the FilterSets of filters.py, the all_customers,         *)
(* all_products and all_orders fields and their resolvers.                 *)
(*                                                                         *)
(* A queryset is the rows it will select, in table order, a row appearing  *)
(* once per joined row that matched (a filter across the products relation *)
(* repeats an order for each of its matching products), whether DISTINCT   *)
(* was asked for, and the ORDER BY keys.                                   *)
(***************************************************************************)
QuerySet(model, rows) ==
    [model |-> model, rows |-> rows, distinct |-> FALSE, order_by |-> <<>>]

\* The value a lookup path reads from a row of the queryset's model.
Lookup(model, row, field) ==
    IF field = "customer__name" THEN RowById(customers, row.customer).name
    ELSE IF field = "id" /\ model = "Order" THEN row.id[1]
    ELSE row[field]

\* filter(condition) on columns of the row or of a to-one relation; keep is
\* the set of rows that satisfy the condition.
Where(qs, keep) == [qs EXCEPT !.rows = SelectSeq(qs.rows, LAMBDA row : row \in keep)]

RECURSIVE Replicate(_, _)
Replicate(rows, counts) ==
    IF rows = <<>> THEN <<>>
    ELSE Replicate(SubSeq(rows, 1, Len(rows) - 1), counts)
           \o [k \in 1..counts[Len(rows)] |-> rows[Len(rows)]]

\* filter(products__...) on the to-many relation: an INNER JOIN; keep is the
\* set of the ids of the products that satisfy the condition.
JoinWhere(qs, keep) ==
    [qs EXCEPT !.rows =
        Replicate(qs.rows,
                  [i \in 1..Len(qs.rows) |-> Cardinality(qs.rows[i].products \cap keep)])]

RECURSIVE Distinct(_)
Distinct(rows) ==
    IF rows = <<>> THEN <<>>
    ELSE LET init == Distinct(SubSeq(rows, 1, Len(rows) - 1))
             last == rows[Len(rows)]
         IN IF \E i \in 1..Len(init) : init[i] = last THEN init ELSE Append(init, last)

LexLess(a, b) ==
    \E k \in 1..Len(a) : a[k] < b[k] /\ \A j \in 1..(k - 1) : a[j] = b[j]

\* An order_by entry "-field" is [desc |-> TRUE, field |-> "field"], "field"
\* is [desc |-> FALSE, field |-> "field"].
OrderKey(desc, field) == [desc |-> desc, field |-> field]

(***************************************************************************)
(* Evaluating the queryset: SELECT [DISTINCT] ... ORDER BY keys.  SQL      *)
(* fixes the order of two rows only when the keys differ on them: rows     *)
(* that are equal on every key, and all rows when there is no key, come in *)
(* an order the database chooses anew for each query.  Rows is the set of  *)
(* the sequences the query may return.                                     *)
(***************************************************************************)
Rows(qs) ==
    LET base == IF qs.distinct THEN Distinct(qs.rows) ELSE qs.rows
        n == Len(base)
        keys == [i \in 1..n |->
                    [k \in 1..Len(qs.order_by) |->
                        IF qs.order_by[k].desc
                        THEN 0 - Lookup(qs.model, base[i], qs.order_by[k].field)
                        ELSE Lookup(qs.model, base[i], qs.order_by[k].field)]]
    IN {[i \in 1..n |-> base[p[i]]] :
          p \in {q \in Permutations(1..n) :
                   \A i \in 1..(n - 1) : ~LexLess(keys[q[i + 1]], keys[q[i]])}}

\* The page of a connection: the query is sliced to the rows after the
\* cursor, at most `first` of them.  The cursor of a row is its position,
\* counted from 0, in the rows of the query.
Page(rows, first, after) ==
    LET start == IF IsNone(after) THEN 1 ELSE after[1] + 2
        stop == IF IsNone(first) \/ start + first[1] - 1 > Len(rows)
                THEN Len(rows) ELSE start + first[1] - 1
    IN IF start > stop THEN <<>> ELSE SubSeq(rows, start, stop)

\* _apply_ordering: a non-empty order_by list replaces the ordering.
apply_ordering(qs, order_by_list) ==
    IF order_by_list # <<>> THEN [qs EXCEPT !.order_by = order_by_list] ELSE qs

\* str.lower on the letters that occur in the stored names and emails.
LowerOf == ("A" :> "a") @@ ("B" :> "b") @@ ("P" :> "p") @@ ("Q" :> "q")

lower(c) == IF c \in DOMAIN LowerOf THEN LowerOf[c] ELSE c

\* The icontains and startswith lookups.
icontains(s, v) ==
    \E i \in 0..(Len(s) - Len(v)) : \A j \in 1..Len(v) : lower(s[i + j]) = lower(v[j])

startswith(s, v) == Len(v) <= Len(s) /\ SubSeq(s, 1, Len(v)) = v

\* CharFilter cleans its value with forms.CharField, which strips leading
\* and trailing whitespace and gives "" for an absent value.
RECURSIVE strip(_)
strip(s) ==
    IF s = <<>> THEN s
    ELSE IF Head(s) = " " THEN strip(Tail(s))
    ELSE IF s[Len(s)] = " " THEN strip(SubSeq(s, 1, Len(s) - 1))
    ELSE s

CharField_clean(v) == IF IsNone(v) THEN <<>> ELSE strip(v[1])

Table(rows) == {rows[i] : i \in 1..Len(rows)}

\* CharFilter(field_name, lookup_expr="icontains"): a cleaned value in
\* EMPTY_VALUES (None, "", [], (), {}) leaves the queryset as it is.
CharFilter(qs, v, field_name) ==
    LET value == CharField_clean(v) IN
    IF value = <<>> THEN qs
    ELSE IF field_name = "products__name"
    THEN JoinWhere(qs, {p.id : p \in {q \in Table(products) : icontains(q.name, value)}})
    ELSE Where(qs, {row \in Table(qs.rows) :
                      icontains(Lookup(qs.model, row, field_name), value)})

\* NumberFilter / IsoDateTimeFilter with lookup_expr gte and lte: only None
\* is an empty value, 0 filters.
FilterGte(qs, v, field_name) ==
    IF IsNone(v) THEN qs
    ELSE Where(qs, {row \in Table(qs.rows) : Lookup(qs.model, row, field_name) >= v[1]})

FilterLte(qs, v, field_name) ==
    IF IsNone(v) THEN qs
    ELSE Where(qs, {row \in Table(qs.rows) : Lookup(qs.model, row, field_name) <= v[1]})

\* CustomerFilter.filter_phone_pattern, called with the cleaned value unless
\* it is empty; a customer without phone (NULL) matches no pattern.
filter_phone_pattern(qs, v) ==
    LET value == CharField_clean(v) IN
    IF value = <<>> THEN qs
    ELSE Where(qs, {c \in Table(qs.rows) :
                      ~IsNone(c.phone) /\ startswith(c.phone[1], value)})

\* CustomerFilter(data, queryset).qs: the filters in the order of Meta.fields.
CustomerFilter(data, qs) ==
    LET q1 == CharFilter(qs, data.name, "name")
        q2 == CharFilter(q1, data.email, "email")
        q3 == FilterGte(q2, data.created_at__gte, "created_at")
        q4 == FilterLte(q3, data.created_at__lte, "created_at")
    IN filter_phone_pattern(q4, data.phone_pattern)

ProductFilter(data, qs) ==
    LET q1 == CharFilter(qs, data.name, "name")
        q2 == FilterGte(q1, data.price__gte, "price")
        q3 == FilterLte(q2, data.price__lte, "price")
        q4 == FilterGte(q3, data.stock__gte, "stock")
    IN FilterLte(q4, data.stock__lte, "stock")

\* OrderFilter.filter_product_id: products__id = value, then DISTINCT.
filter_product_id(qs, v) ==
    IF IsNone(v) THEN qs
    ELSE [JoinWhere(qs, {p.id : p \in {q \in Table(products) : q.id = v[1]}})
            EXCEPT !.distinct = TRUE]

OrderFilter(data, qs) ==
    LET q1 == FilterGte(qs, data.total_amount__gte, "total_amount")
        q2 == FilterLte(q1, data.total_amount__lte, "total_amount")
        q3 == FilterGte(q2, data.order_date__gte, "order_date")
        q4 == FilterLte(q3, data.order_date__lte, "order_date")
        q5 == CharFilter(q4, data.customer_name, "customer__name")
        q6 == CharFilter(q5, data.product_name, "products__name")
    IN filter_product_id(q6, data.product_id)

\* Python truth of an optional string: None and "" are false.
TruthyText(v) == ~IsNone(v) /\ v[1] # <<>>

IfText(v) == IF TruthyText(v) THEN v ELSE None

\* resolve_all_customers: the "filter" wrapper mapped to FilterSet keys
\* (strings and dates by truth; a datetime is always true), then the
\* ordering.  `if filt` is taken as "filter was supplied": an empty wrapper
\* maps to empty data, which filters nothing either way.
resolve_all_customers(kwargs) ==
    LET qs == QuerySet("Customer", customers)
        filt == kwargs.filter
        data == [name |-> IfText(filt[1].nameIcontains),
                 email |-> IfText(filt[1].emailIcontains),
                 created_at__gte |-> filt[1].createdAtGte,
                 created_at__lte |-> filt[1].createdAtLte,
                 phone_pattern |-> IfText(filt[1].phonePattern)]
        filtered == IF IsNone(filt) THEN qs ELSE CustomerFilter(data, qs)
    IN apply_ordering(filtered, kwargs.order_by)

\* The same resolver with the numeric bounds tested by truth, as the string
\* keys are: a bound of 0 is dropped.
resolve_all_products_by_truth(kwargs) ==
    LET qs == QuerySet("Product", products)
        filt == kwargs.filter
        IfNumber(v) == IF ~IsNone(v) /\ v[1] # 0 THEN v ELSE None
        data == [name |-> IfText(filt[1].nameIcontains),
                 price__gte |-> IfNumber(filt[1].priceGte),
                 price__lte |-> IfNumber(filt[1].priceLte),
                 stock__gte |-> IfNumber(filt[1].stockGte),
                 stock__lte |-> IfNumber(filt[1].stockLte)]
        filtered == IF IsNone(filt) THEN qs ELSE ProductFilter(data, qs)
    IN apply_ordering(filtered, kwargs.order_by)

\* resolve_all_products: numeric bounds are passed on unless they are None.
resolve_all_products(kwargs) ==
    LET qs == QuerySet("Product", products)
        filt == kwargs.filter
        data == [name |-> IfText(filt[1].nameIcontains),
                 price__gte |-> filt[1].priceGte,
                 price__lte |-> filt[1].priceLte,
                 stock__gte |-> filt[1].stockGte,
                 stock__lte |-> filt[1].stockLte]
        filtered == IF IsNone(filt) THEN qs ELSE ProductFilter(data, qs)
    IN apply_ordering(filtered, kwargs.order_by)

\* resolve_all_orders.  productId is an ID, passed on when it is a non-empty
\* text; the NumberFilter's form field reads the number it writes.
resolve_all_orders(kwargs) ==
    LET qs == QuerySet("Order", orders)
        filt == kwargs.filter
        data == [total_amount__gte |-> filt[1].totalAmountGte,
                 total_amount__lte |-> filt[1].totalAmountLte,
                 order_date__gte |-> filt[1].orderDateGte,
                 order_date__lte |-> filt[1].orderDateLte,
                 customer_name |-> IfText(filt[1].customerName),
                 product_name |-> IfText(filt[1].productName),
                 product_id |-> IF TruthyText(filt[1].productId)
                                THEN Some(to_python(filt[1].productId[1]))
                                ELSE None]
        filtered == IF IsNone(filt) THEN qs ELSE OrderFilter(data, qs)
    IN apply_ordering(filtered, kwargs.order_by)

\* The fields all_customers, all_products and all_orders: the resolver's
\* queryset filtered by the FilterSet built from the field's own filter
\* arguments, then evaluated and sliced to the page asked for.  Each is the
\* set of the answers the read may give.
all_customers(kwargs) ==
    {Page(rows, kwargs.first, kwargs.after) :
        rows \in Rows(CustomerFilter(kwargs, resolve_all_customers(kwargs)))}

all_products(kwargs) ==
    {Page(rows, kwargs.first, kwargs.after) :
        rows \in Rows(ProductFilter(kwargs, resolve_all_products(kwargs)))}

all_orders(kwargs) ==
    {Page(rows, kwargs.first, kwargs.after) :
        rows \in Rows(OrderFilter(kwargs, resolve_all_orders(kwargs)))}

Items(rows) == [Payload(None, <<>>) EXCEPT !.items = rows]

Query_resolve_all_customers(r, kwargs) ==
    /\ Free(r)
    /\ \E rows \in all_customers(kwargs) :
         req' = [req EXCEPT ![r] = Finished("allCustomers", kwargs, Items(rows))]
    /\ UNCHANGED <<customers, products, orders, cseq, pseq, oseq>>

Query_resolve_all_products(r, kwargs) ==
    /\ Free(r)
    /\ \E rows \in all_products(kwargs) :
         req' = [req EXCEPT ![r] = Finished("allProducts", kwargs, Items(rows))]
    /\ UNCHANGED <<customers, products, orders, cseq, pseq, oseq>>

Query_resolve_all_orders(r, kwargs) ==
    /\ Free(r)
    /\ \E rows \in all_orders(kwargs) :
         req' = [req EXCEPT ![r] = Finished("allOrders", kwargs, Items(rows))]
    /\ UNCHANGED <<customers, products, orders, cseq, pseq, oseq>>

ProductInput(name, price, stock) == [name |-> name, price |-> price, stock |-> stock]

OrderInput(customer_id, product_ids, order_date) ==
    [customer_id |-> customer_id, product_ids |-> product_ids, order_date |-> order_date]

NameP == <<"P">>
NameQ == <<"Q">>
ProdP == ProductInput(NameP, 1000, None)
ProdQ == ProductInput(NameQ, 550, Some(3))
ProdBad == ProductInput(<<>>, 0, Some(-1))

ProductInputs == {ProdP, ProdQ, ProdBad}

Id1 == <<"1">>
Id2 == <<"2">>
Id01 == <<"0", "1">>
IdX == <<"x">>

IdTexts == {Id1, Id2, Id01, IdX}

OrderInputs ==
    {OrderInput(c, p, None) : c \in IdTexts, p \in BoundedSeq(IdTexts, MaxIds)}

\* A read with no filter and no ordering argument.
NoOrdering == <<>>

NoOrderArgs ==
    [total_amount__gte |-> None, total_amount__lte |-> None,
     order_date__gte |-> None, order_date__lte |-> None,
     customer_name |-> None, product_name |-> None, product_id |-> None,
     filter |-> None, order_by |-> NoOrdering,
     first |-> None, after |-> None]

OrderStep(r, cinputs, pinputs, oinputs) ==
    \/ \E input \in cinputs : CreateCustomer_Validate(r, input)
    \/ CreateCustomer_Insert(r)
    \/ \E input \in pinputs : CreateProduct_Mutate(r, input)
    \/ \E input \in oinputs : CreateOrder_Customer(r, input)
    \/ CreateOrder_Products(r)
    \/ CreateOrder_Atomic(r)
    \/ Query_resolve_all_orders(r, NoOrderArgs)
    \/ Return(r)

(***************************************************************************)
(* SpecSeq: one client issuing CreateCustomer, CreateProduct, CreateOrder  *)
(* and all_orders requests one at a time.                                  *)
(***************************************************************************)
NextSeq == OrderStep(1, RaceInputs, ProductInputs, OrderInputs)

SpecSeq == Init /\ [][NextSeq]_vars

(***************************************************************************)
(* SpecOrder: the same requests from concurrent clients.                   *)
(***************************************************************************)
RaceOrders == {OrderInput(Id1, <<Id1>>, None), OrderInput(Id1, <<Id1, Id2>>, None)}

NextOrder == \E r \in Slots : OrderStep(r, {InA}, {ProdP, ProdQ}, RaceOrders)

SpecOrder == Init /\ [][NextOrder]_vars


(***************************************************************************)
(* SpecFilter: reads of all_customers, all_products and all_orders over    *)
(* stored tables.  The tables are drawn from the rows below, in id order:  *)
(* customers and products as the create mutations write them, orders as    *)
(* Order.objects.create(customer=..., total_amount=...) followed by        *)
(* products.set(...) writes them.                                          *)
(***************************************************************************)
PhoneDashed == <<"1", "2", "3", "-", "4", "5", "6", "-", "7", "8", "9", "0">>

EmailC == <<"c", "@", "x">>

CustomerRows ==
    << [id |-> 1, name |-> <<"A">>, email |-> EmailA,
        phone |-> Some(PhonePlus), created_at |-> 1],
       [id |-> 2, name |-> <<"a", " ", "B">>, email |-> EmailB,
        phone |-> None, created_at |-> 2],
       [id |-> 3, name |-> <<"B">>, email |-> EmailC,
        phone |-> Some(PhoneDashed), created_at |-> 2] >>

ProductRows ==
    << [id |-> 1, name |-> <<"P">>, price |-> 1000, stock |-> 0],
       [id |-> 2, name |-> <<"p", "Q">>, price |-> 550, stock |-> 3],
       [id |-> 3, name |-> <<"Q">>, price |-> 2000, stock |-> 10] >>

OrderRows ==
    << [id |-> Some(1), customer |-> 1, products |-> {1},
        total_amount |-> 1000, order_date |-> 1],
       [id |-> Some(2), customer |-> 2, products |-> {1, 2},
        total_amount |-> 1550, order_date |-> 2],
       [id |-> Some(3), customer |-> 3, products |-> {3},
        total_amount |-> 2000, order_date |-> 2] >>

\* The tables holding at most MaxStored of the rows.
Stored(rows) ==
    {SelectSeq(rows, LAMBDA row : \E i \in S : rows[i] = row) :
        S \in {T \in SUBSET (1..Len(rows)) : Cardinality(T) <= MaxStored}}

TextEmpty == Some(<<>>)
TextBlank == Some(<<" ">>)
TextA == Some(<<"a">>)
TextUpperB == Some(<<"B">>)
TextBThenBlank == Some(<<"b", " ">>)
TextP == Some(<<"p">>)
TextPlusOne == Some(<<"+", "1">>)

CustomerFilterInputs ==
    [nameIcontains : {None, TextEmpty, TextA, TextBlank, TextBThenBlank},
     emailIcontains : {None, TextUpperB},
     createdAtGte : {None, Some(2)},
     createdAtLte : {None, Some(2)},
     phonePattern : {None, TextEmpty, TextPlusOne}]

CustomerReads ==
    [name : {None, TextEmpty, TextA, TextBlank, TextBThenBlank},
     email : {None, TextUpperB},
     created_at__gte : {None, Some(2)},
     created_at__lte : {None, Some(2)},
     phone_pattern : {None, TextEmpty, TextPlusOne},
     filter : {None}, order_by : {NoOrdering},
     first : {None}, after : {None}]
    \cup
    [name : {None}, email : {None}, created_at__gte : {None},
     created_at__lte : {None}, phone_pattern : {None},
     filter : {Some(f) : f \in CustomerFilterInputs}, order_by : {NoOrdering},
     first : {None}, after : {None}]
    \cup
    [name : {None, TextA}, email : {None}, created_at__gte : {None, Some(2)},
     created_at__lte : {None}, phone_pattern : {None},
     filter : {Some(f) : f \in
                 [nameIcontains : {None, TextBlank}, emailIcontains : {None, TextUpperB},
                  createdAtGte : {None}, createdAtLte : {None, Some(2)},
                  phonePattern : {None, TextPlusOne}]},
     order_by : {NoOrdering, <<OrderKey(TRUE, "created_at")>>},
     first : {None}, after : {None}]

ProductFilterInputs ==
    [nameIcontains : {None, TextEmpty, TextP, TextBlank},
     priceGte : {None, Some(0), Some(1000)},
     priceLte : {None, Some(0), Some(1000)},
     stockGte : {None, Some(0), Some(3)},
     stockLte : {None, Some(0), Some(3)}]

ProductReads ==
    [name : {None, TextEmpty, TextP, TextBlank},
     price__gte : {None, Some(0), Some(1000)},
     price__lte : {None, Some(0), Some(1000)},
     stock__gte : {None, Some(0), Some(3)},
     stock__lte : {None, Some(0), Some(3)},
     filter : {None}, order_by : {NoOrdering},
     first : {None}, after : {None}]
    \cup
    [name : {None}, price__gte : {None}, price__lte : {None},
     stock__gte : {None}, stock__lte : {None},
     filter : {Some(f) : f \in ProductFilterInputs}, order_by : {NoOrdering},
     first : {None}, after : {None}]
    \cup
    [name : {None, TextP}, price__gte : {None, Some(1000)}, price__lte : {None},
     stock__gte : {None}, stock__lte : {None},
     filter : {Some(f) : f \in
                 [nameIcontains : {None}, priceGte : {None}, priceLte : {None, Some(1000)},
                  stockGte : {None}, stockLte : {None, Some(0)}]},
     order_by : {NoOrdering, <<OrderKey(FALSE, "price")>>,
                 <<OrderKey(TRUE, "stock"), OrderKey(FALSE, "id")>>},
     first : {None}, after : {None}]

OrderFilterInputs ==
    [totalAmountGte : {None, Some(0), Some(1000)},
     totalAmountLte : {None, Some(0), Some(1000)},
     orderDateGte : {None, Some(2)},
     orderDateLte : {None, Some(2)},
     customerName : {None, TextEmpty, TextA, TextBlank},
     productName : {None, TextEmpty, TextP},
     productId : {None, TextEmpty, Some(<<"0">>), Some(Id1), Some(Id01)}]

OrderReads ==
    [total_amount__gte : {None, Some(0), Some(1000)},
     total_amount__lte : {None, Some(0), Some(1000)},
     order_date__gte : {None, Some(2)},
     order_date__lte : {None, Some(2)},
     customer_name : {None, TextEmpty, TextA, TextBlank},
     product_name : {None, TextEmpty, TextP},
     product_id : {None, Some(0), Some(1)},
     filter : {None}, order_by : {NoOrdering},
     first : {None}, after : {None}]
    \cup
    {[NoOrderArgs EXCEPT !.filter = Some(f)] : f \in OrderFilterInputs}
    \cup
    [total_amount__gte : {None}, total_amount__lte : {None},
     order_date__gte : {None}, order_date__lte : {None},
     customer_name : {None}, product_name : {None, TextP},
     product_id : {None, Some(1)},
     filter : {Some(f) : f \in
                 [totalAmountGte : {None}, totalAmountLte : {None, Some(0)},
                  orderDateGte : {None}, orderDateLte : {None},
                  customerName : {None, TextA}, productName : {None, TextP},
                  productId : {None}]},
     order_by : {NoOrdering, <<OrderKey(TRUE, "id")>>,
                 <<OrderKey(FALSE, "order_date"), OrderKey(TRUE, "total_amount")>>},
     first : {None}, after : {None}]

InitFilter ==
    /\ \/ /\ customers \in Stored(CustomerRows)
          /\ products = <<>>
          /\ orders = <<>>
       \/ /\ customers = <<>>
          /\ products \in Stored(ProductRows)
          /\ orders = <<>>
       \/ /\ customers = CustomerRows
          /\ products = ProductRows
          /\ orders \in Stored(OrderRows)
    /\ cseq = IF customers = <<>> THEN 0 ELSE customers[Len(customers)].id
    /\ pseq = IF products = <<>> THEN 0 ELSE products[Len(products)].id
    /\ oseq = IF orders = <<>> THEN 0 ELSE orders[Len(orders)].id[1]
    /\ req = [r \in Slots |-> Idle]

NextFilter ==
    \/ \E kwargs \in CustomerReads : Query_resolve_all_customers(1, kwargs)
    \/ \E kwargs \in ProductReads : Query_resolve_all_products(1, kwargs)
    \/ \E kwargs \in OrderReads : Query_resolve_all_orders(1, kwargs)
    \/ Return(1)

SpecFilter == InitFilter /\ [][NextFilter]_vars

(***************************************************************************)
(* Paged reads: two clients read pages of one element over an unchanged    *)
(* store, the first page (no cursor) or the page after the cursor of the   *)
(* first element.  The sort keys are absent, a key several rows are equal  *)
(* on (created_at), or a list ending in the primary key.                   *)
(***************************************************************************)
PagedReads ==
    [allCustomers |->
       [name : {None}, email : {None}, created_at__gte : {None},
        created_at__lte : {None}, phone_pattern : {None}, filter : {None},
        order_by : {NoOrdering, <<OrderKey(FALSE, "created_at")>>,
                    <<OrderKey(TRUE, "created_at"), OrderKey(FALSE, "id")>>},
        first : {Some(1)}, after : {None, Some(0)}],
     allProducts |->
       [name : {None}, price__gte : {None}, price__lte : {None},
        stock__gte : {None}, stock__lte : {None}, filter : {None},
        order_by : {NoOrdering, <<OrderKey(FALSE, "price")>>},
        first : {Some(1)}, after : {None, Some(0)}],
     allOrders |->
       [total_amount__gte : {None}, total_amount__lte : {None},
        order_date__gte : {None}, order_date__lte : {None},
        customer_name : {None}, product_name : {None, TextP}, product_id : {None},
        filter : {None}, order_by : {NoOrdering, <<OrderKey(TRUE, "id")>>},
        first : {Some(1)}, after : {None, Some(0)}]]

NextPage ==
    \E r \in Slots :
        \/ \E kwargs \in PagedReads.allCustomers : Query_resolve_all_customers(r, kwargs)
        \/ \E kwargs \in PagedReads.allProducts : Query_resolve_all_products(r, kwargs)
        \/ \E kwargs \in PagedReads.allOrders : Query_resolve_all_orders(r, kwargs)
        \/ Return(r)

SpecPage == InitFilter /\ [][NextPage]_vars


(***************************************************************************)
(* The claims.                                                             *)
(***************************************************************************)
Done(r, op) == req[r].pc = "done" /\ req[r].op = op

Store == <<customers, products, orders>>

\* C1: no two distinct stored Customers have the same email, whatever the
\* interleaving of CreateCustomer and BulkCreateCustomers requests.
EmailUnique ==
    \A i, j \in 1..Len(customers) :
        i # j => customers[i].email # customers[j].email

\* C1 witness: a CreateCustomer that passed the exists() check lost the race
\* to another insert of its email and ended at the unique index.
EmailUniqueWitness ==
    \E r \in Slots :
        /\ Done(r, "CreateCustomer")
        /\ req[r].resp.status = "raised"
        /\ req[r].resp.exc = "IntegrityError"
        /\ EmailExists(customers, req[r].input.email)

(***************************************************************************)
(* What a batch is to create, stated from the rows and the store alone:    *)
(* row k (1-based) is created when its name and email are non-empty, its   *)
(* email is in no row of pre and in no earlier created row of the batch,   *)
(* and its phone is valid.                                                 *)
(***************************************************************************)
RECURSIVE RowCreated(_, _, _)
RowCreated(batch, pre, k) ==
    /\ batch[k].name # <<>>
    /\ batch[k].email # <<>>
    /\ ~EmailExists(pre, batch[k].email)
    /\ \A j \in 1..(k - 1) : RowCreated(batch, pre, j) => batch[j].email # batch[k].email
    /\ valid_phone(OrEmpty(batch[k].phone))

RECURSIVE CreatedRows(_, _, _)
CreatedRows(batch, pre, k) ==
    IF k = 0 THEN <<>>
    ELSE CreatedRows(batch, pre, k - 1)
         \o (IF RowCreated(batch, pre, k) THEN <<k>> ELSE <<>>)

InBulk(r) == req[r].pc \in {"bulk_check", "bulk_insert"}

BulkAnswer(batch, pre, post, resp) ==
    LET sel == CreatedRows(batch, pre, Len(batch)) IN
    /\ resp.status = "payload"
    /\ Len(resp.customers) = Len(sel)
    /\ \A i \in 1..Len(sel) :
          /\ resp.customers[i].name = batch[sel[i]].name
          /\ resp.customers[i].email = batch[sel[i]].email
    /\ {resp.errors[i].row : i \in 1..Len(resp.errors)}
          = {k - 1 : k \in (1..Len(batch)) \ {sel[i] : i \in 1..Len(sel)}}
    /\ \A i, j \in 1..Len(resp.errors) : i < j => resp.errors[i].row <= resp.errors[j].row
    /\ post = pre \o resp.customers

\* C2: a batch run on its own creates exactly the rows with a name, an email
\* that is new to the store and to the earlier created rows, and a valid
\* phone, in row order; it reports exactly the other rows, by 0-based index
\* and in row order; the store grows by the created rows and nothing else.
BulkPartialSuccess ==
    [][\A r \in Slots :
         /\ (InBulk(r) /\ req'[r].pc # "done") => customers' = customers
         /\ (InBulk(r) /\ req'[r].pc = "done")
              => BulkAnswer(req[r].input, customers, customers', req'[r].resp)
         /\ (Free(r) /\ req'[r].pc = "done" /\ req'[r].op = "BulkCreateCustomers")
              => BulkAnswer(req'[r].input, customers, customers', req'[r].resp)]_vars

\* C2 witness: a batch of three rows whose second row repeats the first
\* row's email ended with two customers and one error, tagged row 1.
BulkPartialSuccessWitness ==
    \E r \in Slots :
        /\ req[r].pc = "done"
        /\ req[r].op = "BulkCreateCustomers"
        /\ Len(req[r].input) = 3
        /\ req[r].input[2].email = req[r].input[1].email
        /\ Len(req[r].resp.customers) = 2
        /\ Len(req[r].resp.errors) = 1
        /\ req[r].resp.errors[1].row = 1
        /\ req[r].resp.customers[2].email = req[r].input[3].email

\* An id in its canonical text form (str of a stored row's id).
Canonical(rows, id) == \E i \in 1..Len(rows) : str(rows[i].id) = id

\* An id that a primary-key lookup resolves to a stored row.
Resolves(rows, id) == IsInt(id) /\ RowsWithId(rows, to_python(id)) # {}

\* C3 (as claimed): a CreateOrder for an existing customer and a non-empty
\* list of ids of existing products returns the order with no errors; the
\* stored order references the customer and exactly those products, and its
\* total_amount is the sum of their prices.
CreateOrderSuccess ==
    \A r \in Slots :
        (/\ Done(r, "CreateOrder")
         /\ Canonical(customers, req[r].input.customer_id)
         /\ req[r].input.product_ids # <<>>
         /\ \A k \in 1..Len(req[r].input.product_ids) :
              Canonical(products, req[r].input.product_ids[k]))
        => /\ req[r].resp.status = "payload"
           /\ ~IsNone(req[r].resp.entity)
           /\ req[r].resp.errors = <<>>
           /\ \E i \in 1..Len(orders) : orders[i] = req[r].resp.entity[1]
           /\ req[r].resp.entity[1].customer = to_python(req[r].input.customer_id)
           /\ req[r].resp.entity[1].products
                = {to_python(req[r].input.product_ids[k]) :
                     k \in 1..Len(req[r].input.product_ids)}
           /\ req[r].resp.entity[1].total_amount
                = SumPrices(req[r].resp.entity[1].products)

\* C4 (as claimed): a CreateOrder whose customer_id resolves to no Customer
\* ends in its first step, before the product ids are looked at, with a null
\* order and exactly one error naming the id, and creates no order.
UnknownCustomerShortCircuit ==
    [][\A r \in Slots :
         (/\ Free(r)
          /\ req'[r].op = "CreateOrder"
          /\ ~Resolves(customers, req'[r].input.customer_id))
         => /\ req'[r].pc = "done"
            /\ req'[r].resp
                 = Payload(None, <<OrderError("Invalid customer ID",
                                              <<req'[r].input.customer_id>>)>>)
            /\ orders' = orders]_vars

\* C5: a CreateCustomer whose email is stored already and whose phone is
\* malformed returns exactly two errors, the uniqueness one first, and no
\* customer, and stores nothing.
CreateCustomerCollectsAll ==
    [][\A r \in Slots :
         (/\ Free(r)
          /\ req'[r].op = "CreateCustomer"
          /\ EmailExists(customers, req'[r].input.email)
          /\ ~valid_phone(OrEmpty(req'[r].input.phone)))
         => /\ req'[r].pc = "done"
            /\ req'[r].resp = Payload(None, <<MsgEmailExists, MsgPhone>>)
            /\ customers' = customers]_vars

\* C5 witness: the answer to a CreateCustomer with a stored email and the
\* phone "+123456" (six digits) carries both errors.
CreateCustomerCollectsAllWitness ==
    \E r \in Slots :
        /\ Done(r, "CreateCustomer")
        /\ req[r].input.phone = Some(PhoneShort)
        /\ EmailExists(customers, req[r].input.email)
        /\ req[r].resp.errors = <<MsgEmailExists, MsgPhone>>
        /\ IsNone(req[r].resp.entity)

SingleOps == {"CreateCustomer", "CreateProduct", "CreateOrder"}

\* C6 (as claimed): every CreateCustomer, CreateProduct and CreateOrder
\* request is answered with a payload that holds an entity and an error
\* list, the entity is null exactly when the error list is non-empty, and a
\* step of such a request changes the store only when it ends the request
\* with an entity and no errors: a request answered with errors has changed
\* nothing.
MutationOutcomeAndFrame ==
    [][\A r \in Slots :
         (req'[r] # req[r] /\ req'[r].op \in SingleOps)
         => /\ req'[r].pc = "done"
                 => /\ req'[r].resp.status = "payload"
                    /\ IsNone(req'[r].resp.entity) <=> req'[r].resp.errors # <<>>
            /\ (\/ req'[r].pc # "done"
                \/ req'[r].resp.status # "payload"
                \/ req'[r].resp.errors # <<>>)
                 => Store' = Store]_vars

\* C7 (as claimed, for ids written in digits): with an existing customer and
\* a non-empty id list, CreateOrder fails exactly when some supplied id
\* resolves to no Product; it then returns one error listing exactly those
\* ids and no order, an id that resolves is never listed, and no stored
\* order lacks its products.
ProductResolution ==
    \A r \in Slots :
        (/\ Done(r, "CreateOrder")
         /\ Resolves(customers, req[r].input.customer_id)
         /\ req[r].input.product_ids # <<>>
         /\ \A k \in 1..Len(req[r].input.product_ids) :
              IsInt(req[r].input.product_ids[k]))
        => LET unresolved ==
                 SelectSeq(req[r].input.product_ids,
                           LAMBDA pid : ~Resolves(products, pid))
           IN
           /\ req[r].resp.status = "payload"
           /\ IF unresolved = <<>>
              THEN ~IsNone(req[r].resp.entity) /\ req[r].resp.errors = <<>>
              ELSE req[r].resp
                     = Payload(None, <<OrderError("Invalid product ID(s)", unresolved)>>)
           /\ \A i \in 1..Len(orders) : orders[i].products # {}

Complete(o) == o.products # {} /\ o.total_amount = SumPrices(o.products)

BulkRowFailureIsolated ==
    [][\A r \in Slots :
         (/\ req[r].pc = "bulk_insert"
          /\ req'[r] # req[r]
          /\ InsertOutcome(r, req[r].input[req[r].idx + 1].email)
               \in {"IntegrityError", "OperationalError"})
         => /\ req'[r].resp.status # "raised"
            /\ req'[r].created = req[r].created
            /\ Len(req'[r].errors) = Len(req[r].errors) + 1
            /\ req'[r].errors[Len(req'[r].errors)].row = req[r].idx
            /\ req[r].idx + 1 < Len(req[r].input)
                 => /\ req'[r].pc = "bulk_check"
                    /\ req'[r].idx = req[r].idx + 1
                    /\ req'[r].pending = req[r].pending
            /\ req[r].idx + 1 = Len(req[r].input)
                 => customers' = customers \o req[r].pending]_vars

(***************************************************************************)
(* What a read is to return.  A supplied text is compared as it was given,  *)
(* or, when stripped is TRUE, with its leading and trailing whitespace      *)
(* removed; a text filter whose value is then empty, and any filter whose   *)
(* value is None, asks for nothing.                                         *)
(***************************************************************************)
TextOf(v, stripped) == IF stripped THEN strip(v[1]) ELSE v[1]

Asks(v, stripped) == ~IsNone(v) /\ TextOf(v, stripped) # <<>>

\* Some text of texts contains the supplied text, whatever the case.
ContainsHolds(v, stripped, texts) ==
    Asks(v, stripped) => \E s \in texts : icontains(s, TextOf(v, stripped))

\* The phone (an optional text) begins with the supplied text.
PrefixHolds(v, stripped, phone) ==
    Asks(v, stripped) => ~IsNone(phone) /\ startswith(phone[1], TextOf(v, stripped))

AtLeast(v, x) == IsNone(v) \/ x >= v[1]

AtMost(v, x) == IsNone(v) \/ x <= v[1]

CustomerSatisfies(c, name, email, gte, lte, pattern, stripped) ==
    /\ ContainsHolds(name, stripped, {c.name})
    /\ ContainsHolds(email, stripped, {c.email})
    /\ AtLeast(gte, c.created_at)
    /\ AtMost(lte, c.created_at)
    /\ PrefixHolds(pattern, stripped, c.phone)

ProductSatisfies(p, name, pgte, plte, sgte, slte, stripped) ==
    /\ ContainsHolds(name, stripped, {p.name})
    /\ AtLeast(pgte, p.price)
    /\ AtMost(plte, p.price)
    /\ AtLeast(sgte, p.stock)
    /\ AtMost(slte, p.stock)

OrderSatisfies(o, tgte, tlte, dgte, dlte, cname, pname, pid, stripped) ==
    /\ AtLeast(tgte, o.total_amount)
    /\ AtMost(tlte, o.total_amount)
    /\ AtLeast(dgte, o.order_date)
    /\ AtMost(dlte, o.order_date)
    /\ ContainsHolds(cname, stripped, {RowById(customers, o.customer).name})
    /\ ContainsHolds(pname, stripped, {RowById(products, p).name : p \in o.products})
    /\ IsNone(pid) \/ pid[1] \in o.products

Returned(r) == {req[r].resp.items[i] : i \in 1..Len(req[r].resp.items)}

\* The id a productId text of the wrapper names; "" names none.
ProductIdOf(v) == IF TruthyText(v) THEN Some(to_python(v[1])) ELSE None

ReadsCompose(stripped) ==
    \A r \in Slots :
        LET k == req[r].input
            f == req[r].input.filter[1]
            wrapped == ~IsNone(req[r].input.filter)
        IN
        /\ Done(r, "allCustomers") =>
             Returned(r) = {c \in Table(customers) :
                /\ CustomerSatisfies(c, k.name, k.email, k.created_at__gte,
                                     k.created_at__lte, k.phone_pattern, stripped)
                /\ wrapped => CustomerSatisfies(c, f.nameIcontains, f.emailIcontains,
                                  f.createdAtGte, f.createdAtLte, f.phonePattern, stripped)}
        /\ Done(r, "allProducts") =>
             Returned(r) = {p \in Table(products) :
                /\ ProductSatisfies(p, k.name, k.price__gte, k.price__lte,
                                    k.stock__gte, k.stock__lte, stripped)
                /\ wrapped => ProductSatisfies(p, f.nameIcontains, f.priceGte, f.priceLte,
                                  f.stockGte, f.stockLte, stripped)}
        /\ Done(r, "allOrders") =>
             Returned(r) = {o \in Table(orders) :
                /\ OrderSatisfies(o, k.total_amount__gte, k.total_amount__lte,
                                  k.order_date__gte, k.order_date__lte,
                                  k.customer_name, k.product_name, k.product_id, stripped)
                /\ wrapped => OrderSatisfies(o, f.totalAmountGte, f.totalAmountLte,
                                  f.orderDateGte, f.orderDateLte, f.customerName,
                                  f.productName, ProductIdOf(f.productId), stripped)}

\* C10 (as claimed): a read of customers, products or orders returns exactly
\* the stored entities that satisfy every supplied filter with the value as
\* supplied; a None or empty-string text and a None bound ask for nothing,
\* a bound of 0 is a bound, bounds are inclusive, text matches ignore case.
FilterCompositionAsSupplied == ReadsCompose(FALSE)

\* C10 (amended): the same with every text value compared after its leading
\* and trailing whitespace is removed, a text that is empty after that
\* asking for nothing.
FilterComposition == ReadsCompose(TRUE)

\* C10 witness: an orders read with a 0 bound, a blank and an empty text and
\* a product id returned some of the stored orders and not all of them.
FilterCompositionWitness ==
    \E r \in Slots :
        /\ Done(r, "allOrders")
        /\ req[r].input.total_amount__gte = Some(0)
        /\ req[r].input.customer_name = TextBlank
        /\ req[r].input.product_name = TextEmpty
        /\ req[r].input.product_id = Some(1)
        /\ req[r].resp.items # <<>>
        /\ Returned(r) # Table(orders)

\* The positions 1..n of keys in ascending key order; positions whose keys
\* are equal stay in the order of the rows.
RECURSIVE SortedIdx(_, _)
SortedIdx(keys, n) ==
    IF n = 0 THEN <<>>
    ELSE LET prev == SortedIdx(keys, n - 1) IN
         SelectSeq(prev, LAMBDA i : ~LexLess(keys[n], keys[i]))
           \o <<n>>
           \o SelectSeq(prev, LAMBDA i : LexLess(keys[n], keys[i]))

\* The total order of the claim for the finished read r: the entities of
\* the queryset of its field for its arguments, by the keys supplied,
\* entities equal on every key in creation order (the order of the table).
CreationOrdered(r) ==
    LET qs == CASE req[r].op = "allCustomers" ->
                     CustomerFilter(req[r].input, resolve_all_customers(req[r].input))
                [] req[r].op = "allProducts" ->
                     ProductFilter(req[r].input, resolve_all_products(req[r].input))
                [] req[r].op = "allOrders" ->
                     OrderFilter(req[r].input, resolve_all_orders(req[r].input))
        base == Distinct(qs.rows)
        keys == [i \in 1..Len(base) |->
                    [k \in 1..Len(qs.order_by) |->
                        IF qs.order_by[k].desc
                        THEN 0 - Lookup(qs.model, base[i], qs.order_by[k].field)
                        ELSE Lookup(qs.model, base[i], qs.order_by[k].field)]]
        idx == SortedIdx(keys, Len(base))
    IN [i \in 1..Len(base) |-> base[idx[i]]]

\* q asked for the page that follows the page r was given: the same field
\* and arguments, after the cursor of the last element of r's page.
NextPageOf(r, q) ==
    /\ req[r].pc = "done" /\ req[q].pc = "done"
    /\ req[r].op \in {"allCustomers", "allProducts", "allOrders"}
    /\ req[q].op = req[r].op
    /\ req[r].resp.items # <<>>
    /\ ~IsNone(req[r].input.first)
    /\ ~IsNone(req[q].input.after)
    /\ req[q].input.after[1] =
         (IF IsNone(req[r].input.after) THEN 0 - 1 ELSE req[r].input.after[1])
           + Len(req[r].resp.items)
    /\ [req[q].input EXCEPT !.after = None] = [req[r].input EXCEPT !.after = None]

\* C11 (as claimed): every read gives the page asked for of one total order
\* of the selected entities, by the keys supplied and by creation order
\* among entities equal on every key; so a page and the page that follows
\* it share no entity, and the first two pages of a selection that fits in
\* them hold every selected entity.
DeterministicPagination ==
    /\ \A r \in Slots :
         (/\ req[r].pc = "done"
          /\ req[r].op \in {"allCustomers", "allProducts", "allOrders"})
         => req[r].resp.items =
              Page(CreationOrdered(r), req[r].input.first, req[r].input.after)
    /\ \A r, q \in Slots :
         NextPageOf(r, q)
         => /\ Returned(r) \cap Returned(q) = {}
            /\ (/\ IsNone(req[r].input.after)
                /\ Len(CreationOrdered(r)) <= 2 * req[r].input.first[1])
               => \A i \in 1..Len(CreationOrdered(r)) :
                    CreationOrdered(r)[i] \in Returned(r) \cup Returned(q)

\* C12 (as claimed): no stored Customer has an empty name or an empty email;
\* a CreateCustomer whose name or email is empty is answered with no customer
\* and a non-empty error list, and so is a one-row BulkCreateCustomers with
\* such a row.
RequiredCustomerFields ==
    /\ \A i \in 1..Len(customers) :
         customers[i].name # <<>> /\ customers[i].email # <<>>
    /\ \A r \in Slots :
         /\ (/\ Done(r, "CreateCustomer")
             /\ (req[r].input.name = <<>> \/ req[r].input.email = <<>>))
            => /\ req[r].resp.status = "payload"
               /\ IsNone(req[r].resp.entity)
               /\ req[r].resp.errors # <<>>
         /\ (/\ Done(r, "BulkCreateCustomers")
             /\ Len(req[r].input) = 1
             /\ (req[r].input[1].name = <<>> \/ req[r].input[1].email = <<>>))
            => /\ req[r].resp.status = "payload"
               /\ req[r].resp.customers = <<>>
               /\ req[r].resp.errors # <<>>

\* C13 (as claimed): the answer to an orders read holds no order twice,
\* whatever filters were supplied and whatever the tables hold.
NoDuplicateOrders ==
    \A r \in Slots :
        Done(r, "allOrders")
        => \A i, j \in 1..Len(req[r].resp.items) :
             i # j => req[r].resp.items[i] # req[r].resp.items[j]

====
